---- MODULE Spec2Model ----
(***************************************************************************)
(* A model of cast_control's device-state adapter (DeviceWrapper and its   *)
(* mixins, src/cast_control/device/wrapper.py).                            *)
(*                                                                         *)
(* Encoding of Python values:                                              *)
(*   - an Optional number is Nothing (<<>>, Python None) or Just(n);       *)
(*   - an Optional string is None ("None") or a string;                    *)
(*   - an Optional status object is NoStatus or a record;                  *)
(*   - times of the media status (current_time, adjusted_current_time) are *)
(*     carried in hundredths of a second, durations in whole seconds;      *)
(*   - an exception leaving an operation is recorded in call.raised.       *)
(***************************************************************************)
EXTENDS Integers, Sequences, FiniteSets, TLC

\* ------------------------------------------------------------------ bounds
MaxTime == 5        \* largest current_time the device reports (1/100 s)
MaxElapsed == 1     \* largest adjusted_current_time - current_time (1/100 s)
MaxDuration == 1    \* largest device-reported duration (s)
MaxQuery == 2       \* largest number of key=value pairs in a uri's query
MaxVolume == 10     \* the volume scale: levels 0..MaxVolume
MaxImages == 2      \* largest number of images in a media status
MaxDevices == 2     \* largest number of devices a discovery returns

\* --------------------------------------------------------------- constants
NO_DURATION == 0
BEGINNING == 0
US_IN_SEC == 1000000

DEFAULT_RATE == 1
NO_DELTA == 0
MAX_TITLES == 3
TITLE == "Cast Control"
DEFAULT_ICON == FALSE
DEFAULT_THUMB == "DEFAULT_THUMB"
LIGHT_THUMB == "LIGHT_THUMB"

None == "None"
Nothing == <<>>
Just(n) == <<n>>
NoStatus == [absent |-> TRUE]
NoCall == [op |-> "none"]
NoIcon == [absent |-> TRUE]

\* Python truthiness of an Optional number / Optional string
TruthyNum(o) == o # Nothing /\ o[1] # 0
TruthyStr(s) == s # None /\ s # ""

VARIABLES
  med,                \* dev.media_controller.status (MediaStatus or NoStatus)
  cast,               \* dev.status (CastStatus or NoStatus)
  app_id,             \* dev.app_id
  app_display_name,   \* dev.app_display_name
  yt_active,          \* ctls.yt.is_active
  _longest_duration,  \* TimeMixin._longest_duration
  cached_icon,        \* Wrapper.cached_icon
  light_icon,         \* Wrapper.light_icon
  cmds,               \* device commands issued by the last operation
  call,               \* the last operation: its name, inputs and result
  hist,               \* history of position reports since construction
  pending             \* a resetting notification not yet followed by an estimate

devVars == <<med, cast, app_id, app_display_name, yt_active>>
ownVars == <<_longest_duration, cached_icon, light_icon>>
obsVars == <<hist, pending>>
vars == <<med, cast, app_id, app_display_name, yt_active, _longest_duration,
          cached_icon, light_icon, cmds, call, hist, pending>>

\* A media status with nothing playing and no metadata.
DefaultMed ==
  [duration |-> Nothing, adjusted_current_time |-> Nothing,
   current_time |-> Nothing, title |-> None, series_title |-> None,
   subtitle |-> None, artist |-> None, album_name |-> None, images |-> <<>>,
   content_id |-> None, track |-> Nothing, playback_rate |-> 0,
   player_state |-> "UNKNOWN",
   supports_pause |-> FALSE, supports_seek |-> FALSE,
   supports_queue_next |-> FALSE, supports_queue_prev |-> FALSE]

DefaultCast == [icon_url |-> None, volume_level |-> 0, volume_muted |-> FALSE]

\* ------------------------------------------------------------- StatusMixin
media_status(m) == m
cast_status(c) == c

\* --------------------------------------------------------------- TimeMixin
\* current_time: status.adjusted_current_time or status.current_time
current_time(m) ==
  IF media_status(m) = NoStatus THEN Nothing
  ELSE IF TruthyNum(m.adjusted_current_time) THEN m.adjusted_current_time
  ELSE m.current_time

\* round(position_secs * US_IN_SEC), position_secs in 1/100 s
get_current_position(m) ==
  LET position_secs == current_time(m) IN
  IF ~TruthyNum(position_secs) THEN BEGINNING
  ELSE position_secs[1] * (US_IN_SEC \div 100)

\* round(current_time, RESOLUTION), RESOLUTION = 1 decimal, in 1/10 s.  Python rounds the double
\* nearest to c/100; for the only tie that matters to "> 0", 0.05, that
\* double lies above 0.05 and rounds up.
RoundToResolution(c) == (c + 5) \div 10

has_current_time(m) ==
  LET t == current_time(m) IN
  IF t = Nothing THEN FALSE
  ELSE RoundToResolution(t[1]) > BEGINNING

\* The duration get_duration reads from the status.
StatusDuration(m) ==
  IF media_status(m) # NoStatus THEN m.duration ELSE Nothing

\* Faulty variant: the estimate is consulted before the device's duration
get_duration_val_estimate_first(m, longest) ==
  LET duration == StatusDuration(m)
      current == get_current_position(m) IN
  IF TruthyNum(longest) /\ longest[1] > current THEN longest[1]
  ELSE IF duration # Nothing THEN duration[1] * US_IN_SEC
  ELSE IF current # 0 THEN current
  ELSE NO_DURATION

\* get_duration's return value
get_duration_val(m, longest) ==
  LET duration == StatusDuration(m)
      current == get_current_position(m) IN
  IF duration # Nothing THEN duration[1] * US_IN_SEC
  ELSE IF TruthyNum(longest) /\ longest[1] > current THEN longest[1]
  ELSE IF current # 0 THEN current
  ELSE NO_DURATION

\* get_duration's effect on _longest_duration
get_duration_longest(m, longest) ==
  LET duration == StatusDuration(m)
      current == get_current_position(m) IN
  IF duration # Nothing THEN longest
  ELSE IF TruthyNum(longest) /\ longest[1] > current THEN longest
  ELSE IF current # 0 THEN Just(current)
  ELSE longest

\* Faulty variant: the reset is taken only when there is no position at all
on_new_status_longest_unrounded(m, longest) ==
  IF current_time(m) = Nothing THEN Nothing ELSE longest

\* on_new_status's effect on _longest_duration
on_new_status_longest(m, longest) ==
  IF ~has_current_time(m) THEN Nothing ELSE longest

\* ------------------------------------------------- history of the reports
NoHist == [n |-> 0, max |-> 0, last |-> 0, rising |-> TRUE, est |-> TRUE]

\* The history after the device reports status m.  A status without a
\* position (absent or 0) is no position report and leaves the history as
\* it is.  Otherwise: the number of reports (capped at 2), the largest and
\* the last position reported, whether the positions rose strictly
\* throughout, and whether every report came with a device duration of 0 or
\* none.
Report(h, m) ==
  LET p == get_current_position(m)
      d == StatusDuration(m) IN
  IF p = 0 THEN h
  ELSE [n |-> IF h.n < 2 THEN h.n + 1 ELSE 2,
        max |-> IF p > h.max THEN p ELSE h.max,
        last |-> p,
        rising |-> h.rising /\ (h.n = 0 \/ p > h.last),
        est |-> h.est /\ (d = Nothing \/ d = Just(0))]

\* The stale estimate a resetting notification leaves behind: what
\* _longest_duration held when the first such notification arrived.
Stale(p, m, longest) ==
  IF has_current_time(m) \/ p # Nothing THEN p
  ELSE IF longest = Nothing THEN Just(0) ELSE longest

\* ---------------------------------------------------------- time: actions
OptTimes == {Nothing} \cup {Just(t) : t \in 0..MaxTime}
OptDurations == {Nothing} \cup {Just(d) : d \in 0..MaxDuration}

\* pychromecast's adjusted_current_time is current_time plus the time
\* elapsed since the report while playing, and None without a current_time.
TimeStatuses ==
  {NoStatus} \cup
  {[DefaultMed EXCEPT !.duration = d, !.current_time = t,
                      !.adjusted_current_time =
                         IF t = Nothing THEN Nothing ELSE Just(t[1] + e)] :
     d \in OptDurations, t \in OptTimes, e \in 0..MaxElapsed}

InitOwn ==
  /\ _longest_duration = Just(NO_DURATION)
  /\ cached_icon = NoIcon
  /\ light_icon = DEFAULT_ICON
  /\ cmds = <<>>
  /\ call = NoCall
  /\ pending = Nothing

InitTime ==
  /\ med \in TimeStatuses
  /\ cast = NoStatus
  /\ app_id = None
  /\ app_display_name = None
  /\ yt_active = FALSE
  /\ hist = Report(NoHist, med)
  /\ InitOwn

\* The device replaces its media status by one of statuses.
ReportMedia(statuses) ==
  /\ \E m \in statuses : med' = m /\ hist' = Report(hist, m)
  /\ call' = NoCall
  /\ cmds' = <<>>
  /\ UNCHANGED <<cast, app_id, app_display_name, yt_active, ownVars, pending>>

\* The device reports a media status (a position report).
ReportMediaStatus == ReportMedia(TimeStatuses)

\* TimeMixin.get_duration
GetDuration ==
  /\ call' = [op |-> "get_duration",
              val |-> get_duration_val(med, _longest_duration),
              raised |-> FALSE,
              duration |-> StatusDuration(med),
              position |-> get_current_position(med),
              before |-> _longest_duration,
              pending |-> pending,
              hist |-> hist]
  /\ _longest_duration' = get_duration_longest(med, _longest_duration)
  /\ pending' = IF StatusDuration(med) = Nothing THEN Nothing ELSE pending
  /\ cmds' = <<>>
  /\ UNCHANGED <<devVars, cached_icon, light_icon, hist>>

\* TimeMixin.get_current_position
GetCurrentPosition ==
  /\ call' = [op |-> "get_current_position",
              val |-> get_current_position(med), raised |-> FALSE]
  /\ cmds' = <<>>
  /\ UNCHANGED <<devVars, ownVars, obsVars>>

\* TimeMixin.on_new_status, the status-change notification
OnNewStatus ==
  /\ _longest_duration' = on_new_status_longest(med, _longest_duration)
  /\ pending' = Stale(pending, med, _longest_duration)
  /\ call' = [op |-> "on_new_status", raised |-> FALSE,
              before |-> _longest_duration]
  /\ cmds' = <<>>
  /\ UNCHANGED <<devVars, cached_icon, light_icon, hist>>

NextTime ==
  \/ ReportMediaStatus
  \/ GetDuration
  \/ GetCurrentPosition
  \/ OnNewStatus

SpecTime == InitTime /\ [][NextTime]_vars

\* ------------------------------------------------------------ time: claims

\* C1: after a strictly rising sequence of position reports, all made while
\* the device-reported duration is 0 or absent, get_duration called on the
\* last report returns the largest position of the sequence, in
\* microseconds.
C1_RisingMaximum ==
  (call.op = "get_duration" /\ call.hist.n > 0 /\ call.hist.rising
     /\ call.hist.est /\ call.position = call.hist.last)
    => call.val = call.hist.max

\* The part of C1 the code keeps: the same with the device reporting no
\* duration at all at the call.
C1_RisingMaximumAbsent ==
  (call.op = "get_duration" /\ call.hist.n > 0 /\ call.hist.rising
     /\ call.hist.est /\ call.position = call.hist.last
     /\ call.duration = Nothing)
    => call.val = call.hist.max

\* C2: the first get_duration that estimates after a notification delivered
\* without a position (absent, or 0 after rounding to one decimal) returns
\* the current position, which is 0 while no nonzero position is reported:
\* never the estimate stored before the notification.
C2_ResetForgetsEstimate ==
  (call.op = "get_duration" /\ call.pending # Nothing
     /\ (call.duration = Nothing \/ call.duration = Just(0)))
    => /\ call.val \in {0, call.position}
       /\ call.duration = Nothing => call.val = call.position

C2_Witness ==
  /\ call.op = "get_duration"
  /\ call.pending # Nothing
  /\ call.pending[1] > 0
  /\ call.duration = Nothing
  /\ call.position = 0
  /\ call.val = 0

\* C3: with a device duration above 0, get_duration returns that duration
\* times 1,000,000 and leaves the stored estimate as it was.
C3_DeviceDurationWins ==
  (call.op = "get_duration" /\ call.duration # Nothing
     /\ call.duration[1] > 0)
    => /\ call.val = call.duration[1] * 1000000
       /\ _longest_duration = call.before

C3_Witness ==
  /\ call.op = "get_duration"
  /\ call.duration = Just(1)
  /\ TruthyNum(call.before)
  /\ call.before[1] > call.position
  /\ call.position > 0
  /\ call.val = 1000000

\* ------------------------------------------------------------- TitlesMixin
Min(a, b) == IF a < b THEN a ELSE b

\* media_controller.title: pychromecast reads it from the media status
media_controller_title(m) == IF m = NoStatus THEN None ELSE m.title

\* get_subtitle: media_metadata.get('subtitle') of a present status
get_subtitle(m) ==
  IF media_status(m) = NoStatus THEN None
  ELSE IF TruthyStr(m.subtitle) THEN m.subtitle
  ELSE None

\* "if x: titles.append(x)"
AppendIf(ts, x) == IF TruthyStr(x) THEN Append(ts, x) ELSE ts

\* Titles(*titles): a named tuple of three fields, each None by default
Titles(ts) == [i \in 1..3 |-> IF i <= Len(ts) THEN ts[i] ELSE None]

\* Faulty variant: the application name is collected first, not last
titles_app_first(m, app_name) ==
  LET status == media_status(m)
      t0 == AppendIf(<<>>, app_name)
      t1 == AppendIf(t0, media_controller_title(m))
      t2 == IF status # NoStatus THEN AppendIf(t1, status.series_title) ELSE t1
      t3 == AppendIf(t2, get_subtitle(m))
      t4 == IF status # NoStatus
            THEN AppendIf(AppendIf(t3, status.artist), status.album_name)
            ELSE t3
      t5 == IF t4 = <<>> THEN <<TITLE>> ELSE t4
  IN  Titles(SubSeq(t5, 1, Min(Len(t5), MAX_TITLES)))

\* The titles property
titles(m, app_name) ==
  LET status == media_status(m)
      t1 == AppendIf(<<>>, media_controller_title(m))
      t2 == IF status # NoStatus THEN AppendIf(t1, status.series_title) ELSE t1
      t3 == AppendIf(t2, get_subtitle(m))
      t4 == IF status # NoStatus
            THEN AppendIf(AppendIf(t3, status.artist), status.album_name)
            ELSE t3
      t5 == AppendIf(t4, app_name)
      t6 == IF t5 = <<>> THEN <<TITLE>> ELSE t5
  IN  Titles(SubSeq(t6, 1, Min(Len(t6), MAX_TITLES)))

\* -------------------------------------------------------------- IconsMixin
\* _set_cached_icon: the cache after a write of url
set_cached_icon(url, m, aid, aname) ==
  IF ~TruthyStr(url) THEN NoIcon
  ELSE [url |-> url, app_id |-> aid, title |-> titles(m, aname)[1]]

\* Faulty variant: the cache is valid while the title alone is the same
can_use_cache_title_only(icon, m, aid, aname) ==
  IF icon = NoIcon \/ ~TruthyStr(icon.url) THEN FALSE
  ELSE icon.title = titles(m, aname)[1]

\* _can_use_cache
can_use_cache(icon, m, aid, aname) ==
  IF icon = NoIcon \/ ~TruthyStr(icon.url) THEN FALSE
  ELSE icon.app_id = aid /\ icon.title = titles(m, aname)[1]

Returned(v, icon) == [raised |-> FALSE, val |-> v, cached |-> icon]
Raised(e, icon) == [raised |-> TRUE, val |-> e, cached |-> icon]

\* _get_icon_from_device: the url returned (or the error raised) and the
\* cache it leaves.  An image is modelled by its url, the first field of
\* pychromecast's MediaImage.
get_icon_from_device(m, c, aid, aname, icon) ==
  IF media_status(m) = NoStatus THEN Raised("AttributeError", icon)
  ELSE IF m.images # <<>>
    THEN Returned(m.images[1], set_cached_icon(m.images[1], m, aid, aname))
  ELSE IF cast_status(c) # NoStatus /\ TruthyStr(c.icon_url)
    THEN Returned(c.icon_url, set_cached_icon(c.icon_url, m, aid, aname))
  ELSE IF ~can_use_cache(icon, m, aid, aname) THEN Returned(None, icon)
  ELSE Returned(icon.url, icon)

\* _get_default_icon
get_default_icon(light) == IF light THEN LIGHT_THUMB ELSE DEFAULT_THUMB

\* get_art_url
get_art_url(m, c, aid, aname, icon, light) ==
  LET r == get_icon_from_device(m, c, aid, aname, icon) IN
  IF r.raised THEN r
  ELSE IF TruthyStr(r.val) THEN r
  ELSE Returned(get_default_icon(light), r.cached)

\* ------------------------------------------------------- ControllersMixin
\* content ids that are urls ("content_id.startswith('http')")
HttpContentIds == {"http://host/a.mp3"}

\* _is_youtube_vid
is_youtube_vid(content_id, active) ==
  IF ~TruthyStr(content_id) \/ ~active THEN FALSE
  ELSE content_id \notin HttpContentIds

\* _get_url; YoutubeUrl.get_url puts the watch prefix before the id
get_url(m, active) ==
  LET content_id == IF media_status(m) # NoStatus THEN m.content_id ELSE None IN
  IF is_youtube_vid(content_id, active)
    THEN <<"https://youtube.com/watch?v=", content_id>>
  ELSE content_id

\* ----------------------------------------------------------- MetadataMixin
\* metadata(): the keyword arguments are evaluated in order, so
\* get_duration has stored its estimate before get_art_url runs.
metadata(m, c, aid, aname, icon, light, longest, active) ==
  LET t == titles(m, aname)
      art == get_art_url(m, c, aid, aname, icon, light)
      obj == [track_id |-> <<"track", t[1]>>,
              length |-> get_duration_val(m, longest),
              art_url |-> art.val,
              url |-> get_url(m, active),
              title |-> t[1],
              artists |-> IF TruthyStr(t[2]) THEN <<t[2]>> ELSE <<>>,
              album |-> t[3],
              track_number |->
                 IF media_status(m) # NoStatus THEN m.track ELSE Nothing]
  IN  [raised |-> art.raised,
       val |-> IF art.raised THEN art.val ELSE obj,
       cached |-> art.cached,
       longest |-> get_duration_longest(m, longest)]

\* ----------------------------------------------------------- PlaybackMixin
\* get_playstate, from media_controller.is_playing / is_paused
get_playstate(m) ==
  IF m # NoStatus /\ m.player_state = "PLAYING" THEN "PLAYING"
  ELSE IF m # NoStatus /\ m.player_state = "PAUSED" THEN "PAUSED"
  ELSE "STOPPED"

\* ---------------------------------------------------------------- get_rate
get_rate(m) ==
  IF media_status(m) = NoStatus THEN DEFAULT_RATE
  ELSE IF m.playback_rate # 0 THEN m.playback_rate
  ELSE DEFAULT_RATE

\* ------------------------------------------------------------- VolumeMixin
\* get_volume: Decimal(volume_level), in steps of the volume scale
get_volume(c) ==
  IF cast_status(c) = NoStatus THEN Nothing ELSE Just(c.volume_level)

is_mute(c) == IF cast_status(c) # NoStatus THEN c.volume_muted ELSE FALSE

Abs(x) == IF x < 0 THEN 0 - x ELSE x

\* Faulty variant: a delta of 0 is sent as a volume_up, like a positive one
set_volume_cmds_wrong_sign(val, c) ==
  LET curr == get_volume(c) IN
  IF curr = Nothing THEN <<>>
  ELSE LET delta == val - curr[1] IN
       IF delta >= NO_DELTA THEN <<[cmd |-> "volume_up", delta |-> delta]>>
       ELSE <<[cmd |-> "volume_down", delta |-> Abs(delta)]>>

\* set_volume: the commands it sends to the device
set_volume_cmds(val, c) ==
  LET curr == get_volume(c) IN
  IF curr = Nothing THEN <<>>
  ELSE LET delta == val - curr[1] IN
       IF delta > NO_DELTA THEN <<[cmd |-> "volume_up", delta |-> delta]>>
       ELSE IF delta < NO_DELTA
         THEN <<[cmd |-> "volume_down", delta |-> Abs(delta)]>>
       ELSE <<>>

\* ---------------------------------------------------------- AbilitiesMixin
can_play(m) == get_playstate(m) # "STOPPED"
can_play_next(m) ==
  IF media_status(m) # NoStatus THEN m.supports_queue_next ELSE FALSE
can_play_prev(m) ==
  IF media_status(m) # NoStatus THEN m.supports_queue_prev ELSE FALSE
can_pause(m) == IF media_status(m) # NoStatus THEN m.supports_pause ELSE FALSE
can_seek(m) == IF media_status(m) # NoStatus THEN m.supports_seek ELSE FALSE

\* --------------------------------------------------------- content identifier
\* A uri is carried as urlparse splits it: netloc, a sequence of pieces
\* ("www.", "youtube.com", ...); path, <<>> or "/" followed by the rest; and
\* query, the sequence of its key=value pairs.
YoutubeUrl_long == "youtube.com"
YoutubeUrl_short == "youtu.be"
VIDEO_QS == "v"

\* str.casefold on a piece of the netloc
Casefold(piece) ==
  IF piece = "YouTube.com" THEN "youtube.com"
  ELSE IF piece = "YOUTU.BE" THEN "youtu.be"
  ELSE piece

\* "url in netloc": the netloc holds the piece
Contains(netloc, url) == \E i \in 1..Len(netloc) : netloc[i] = url

\* is_youtube: any(url in urlparse(uri.casefold()).netloc for url in
\* YoutubeUrl); the third member, the watch prefix, holds a "/" and is in no
\* netloc.
is_youtube(uri) ==
  LET netloc == [i \in 1..Len(uri.netloc) |-> Casefold(uri.netloc[i])] IN
  Contains(netloc, YoutubeUrl_long) \/ Contains(netloc, YoutubeUrl_short)

\* parse_qs(query)[key]: the non-blank values of key, in order; a key
\* without any is not in the dictionary.
RECURSIVE QsValues(_, _)
QsValues(query, key) ==
  IF query = <<>> THEN <<>>
  ELSE LET kv == Head(query)
           rest == QsValues(Tail(query), key) IN
       IF kv[1] = key /\ kv[2] # "" THEN <<kv[2]>> \o rest ELSE rest

\* parsed.path[SKIP_FIRST]
SkipFirst(path) == IF Len(path) <= 1 THEN "" ELSE path[2]

\* get_content_id: the id returned, or the error raised
get_content_id(uri) ==
  IF ~is_youtube(uri) THEN [raised |-> FALSE, val |-> None]
  ELSE IF uri.netloc = <<YoutubeUrl_long>> THEN
    LET vs == QsValues(uri.query, VIDEO_QS) IN
    IF vs = <<>> THEN [raised |-> TRUE, val |-> "KeyError"]
    ELSE IF Len(vs) # 1 THEN [raised |-> TRUE, val |-> "ValueError"]
    ELSE [raised |-> FALSE, val |-> vs[1]]
  ELSE IF uri.netloc = <<YoutubeUrl_short>>
    THEN [raised |-> FALSE, val |-> SkipFirst(uri.path)]
  ELSE [raised |-> FALSE, val |-> None]

\* mimetypes.guess_type(uri)[0]: by the extension of the path
guess_type(uri) ==
  IF Len(uri.path) = 2 /\ uri.path[2] = "a.mp4" THEN "video/mp4" ELSE None

\* _play_youtube: the commands sent to the YouTube controller
play_youtube(video_id, active) ==
  (IF ~active THEN <<[cmd |-> "yt.launch"]>> ELSE <<>>)
    \o <<[cmd |-> "yt.play_video", id |-> video_id]>>

\* open_uri: the error raised, if any, and the commands sent
open_uri(uri, active) ==
  LET video_id == get_content_id(uri) IN
  IF video_id.raised THEN [raised |-> TRUE, val |-> video_id.val, cmds |-> <<>>]
  ELSE IF TruthyStr(video_id.val)
    THEN [raised |-> FALSE, val |-> None,
          cmds |-> play_youtube(video_id.val, active)]
  ELSE [raised |-> FALSE, val |-> None,
        cmds |-> <<[cmd |-> "play_media", uri |-> uri,
                    mimetype |-> guess_type(uri)]>>]

\* add_track: the error raised, if any, and the commands sent
add_track(uri, set_as_current, active) ==
  LET video_id == get_content_id(uri) IN
  IF video_id.raised THEN [raised |-> TRUE, val |-> video_id.val, cmds |-> <<>>]
  ELSE IF TruthyStr(video_id.val) THEN
    [raised |-> FALSE, val |-> None,
     cmds |-> <<[cmd |-> "yt.add_to_queue", id |-> video_id.val]>>
              \o (IF set_as_current
                  THEN <<[cmd |-> "yt.play_video", id |-> video_id.val]>>
                  ELSE <<>>)]
  ELSE IF set_as_current THEN open_uri(uri, active)
  ELSE [raised |-> FALSE, val |-> None, cmds |-> <<>>]

\* ======================================================= uris: open_uri, add_track
InitDefaults ==
  /\ med = NoStatus
  /\ cast = NoStatus
  /\ app_id = None
  /\ app_display_name = None
  /\ yt_active = FALSE
  /\ hist = NoHist
  /\ InitOwn

Netlocs ==
  {<<"youtube.com">>, <<"www.", "youtube.com">>, <<"YouTube.com">>,
   <<"youtu.be">>, <<"example.com">>}
Paths == {<<"/">>, <<"/", "abc123">>, <<"/", "a.mp4">>}
QueryPairs == {<<k, v>> : k \in {"v", "t"}, v \in {"", "a"}}
Queries == UNION {[1..n -> QueryPairs] : n \in 0..MaxQuery}
Uris == [netloc : Netlocs, path : Paths, query : Queries]

\* The YouTube application starts or stops on the device.
YoutubeActivity ==
  /\ yt_active' = ~yt_active
  /\ call' = NoCall
  /\ cmds' = <<>>
  /\ UNCHANGED <<med, cast, app_id, app_display_name, ownVars, obsVars>>

\* ControllersMixin.open_uri
OpenUri ==
  /\ \E uri \in Uris :
       LET r == open_uri(uri, yt_active) IN
       /\ call' = [op |-> "open_uri", uri |-> uri, raised |-> r.raised,
                   val |-> r.val]
       /\ cmds' = r.cmds
  /\ UNCHANGED <<devVars, ownVars, obsVars>>

\* ControllersMixin.add_track
AddTrack ==
  /\ \E uri \in Uris, set_as_current \in BOOLEAN :
       LET r == add_track(uri, set_as_current, yt_active) IN
       /\ call' = [op |-> "add_track", uri |-> uri,
                   set_as_current |-> set_as_current, raised |-> r.raised,
                   val |-> r.val]
       /\ cmds' = r.cmds
  /\ UNCHANGED <<devVars, ownVars, obsVars>>

NextUri ==
  \/ YoutubeActivity
  \/ OpenUri
  \/ AddTrack

SpecUri == InitDefaults /\ [][NextUri]_vars

\* The generic play-media command for a uri
PlayMedia(uri) ==
  [cmd |-> "play_media", uri |-> uri, mimetype |-> guess_type(uri)]

\* C5: open_uri and add_track raise nothing on a long-form url whose "v"
\* parameter has no value or several, and open_uri then sends the generic
\* play-media command.
C5_MalformedQueryTolerated ==
  (call.op \in {"open_uri", "add_track"}
     /\ call.uri.netloc = <<YoutubeUrl_long>>
     /\ Len(QsValues(call.uri.query, VIDEO_QS)) # 1)
    => /\ ~call.raised
       /\ call.op = "open_uri" => cmds = <<PlayMedia(call.uri)>>

\* C8: for a uri is_youtube recognizes, open_uri sends play_video to the
\* YouTube controller, after launch exactly when the controller is not
\* active, and no play_media; for any other uri it sends one play_media with
\* the uri and its guessed MIME type and nothing else.
C8_OpenUriDispatch ==
  call.op = "open_uri" =>
    IF is_youtube(call.uri)
      THEN /\ ~call.raised
           /\ \E n \in {1, 2} :
                /\ Len(cmds) = n
                /\ cmds[n].cmd = "yt.play_video"
                /\ (n = 2) = ~yt_active
                /\ n = 2 => cmds[1].cmd = "yt.launch"
      ELSE cmds = <<PlayMedia(call.uri)>>

\* What the code keeps of C8: the same for the uris get_content_id returns
\* an id for.
C8_OpenUriDispatchById ==
  (call.op = "open_uri" /\ ~call.raised) =>
    LET id == get_content_id(call.uri) IN
    IF TruthyStr(id.val)
      THEN cmds = (IF yt_active THEN <<>> ELSE <<[cmd |-> "yt.launch"]>>)
                    \o <<[cmd |-> "yt.play_video", id |-> id.val]>>
      ELSE cmds = <<PlayMedia(call.uri)>>

\* ================================================================= volume
CastStatuses ==
  {NoStatus} \cup
  {[DefaultCast EXCEPT !.volume_level = v, !.volume_muted = b] :
     v \in 0..MaxVolume, b \in BOOLEAN}

\* The device reports a cast status.
ReportCastStatus ==
  /\ cast' \in CastStatuses
  /\ call' = NoCall
  /\ cmds' = <<>>
  /\ UNCHANGED <<med, app_id, app_display_name, yt_active, ownVars, obsVars>>

\* VolumeMixin.get_volume
GetVolume ==
  /\ call' = [op |-> "get_volume", val |-> get_volume(cast), raised |-> FALSE]
  /\ cmds' = <<>>
  /\ UNCHANGED <<devVars, ownVars, obsVars>>

\* VolumeMixin.is_mute
IsMute ==
  /\ call' = [op |-> "is_mute", val |-> is_mute(cast), raised |-> FALSE]
  /\ cmds' = <<>>
  /\ UNCHANGED <<devVars, ownVars, obsVars>>

\* VolumeMixin.set_volume
SetVolume ==
  /\ \E val \in 0..MaxVolume :
       /\ call' = [op |-> "set_volume", arg |-> val, raised |-> FALSE]
       /\ cmds' = set_volume_cmds(val, cast)
  /\ UNCHANGED <<devVars, ownVars, obsVars>>

NextVolume ==
  \/ ReportCastStatus
  \/ GetVolume
  \/ IsMute
  \/ SetVolume

SpecVolume == InitDefaults /\ [][NextVolume]_vars

\* C7: with a cast status, set_volume sends nothing when the target is the
\* current volume, one volume_up of target - current when it is above, and
\* one volume_down of current - target when it is below.
C7_OneVolumeCommand ==
  (call.op = "set_volume" /\ cast # NoStatus) =>
    LET target == call.arg
        current == cast.volume_level IN
    /\ target = current => cmds = <<>>
    /\ target > current =>
         cmds = <<[cmd |-> "volume_up", delta |-> target - current]>>
    /\ target < current =>
         cmds = <<[cmd |-> "volume_down", delta |-> current - target]>>

C7_Witness ==
  /\ call.op = "set_volume"
  /\ cast # NoStatus
  /\ cast.volume_level = 4
  /\ call.arg = 1
  /\ cmds = <<[cmd |-> "volume_down", delta |-> 3]>>

\* ================================================================= titles
TitleStatuses ==
  {NoStatus} \cup
  {[DefaultMed EXCEPT !.title = t, !.series_title = s, !.subtitle = u,
                      !.artist = a, !.album_name = b] :
     t \in {None, "", "T"}, s \in {None, "S"}, u \in {None, "Sub"},
     a \in {None, "Ar"}, b \in {None, "", "Al"}}

InitTitles ==
  /\ med \in TitleStatuses
  /\ cast = NoStatus
  /\ app_id = None
  /\ app_display_name \in {None, "App"}
  /\ yt_active = FALSE
  /\ hist = Report(NoHist, med)
  /\ InitOwn

ReportTitlesStatus == ReportMedia(TitleStatuses)

\* The running application changes: its id and its display name.
ReportApp(ids, names) ==
  /\ app_id' \in ids
  /\ app_display_name' \in names
  /\ call' = NoCall
  /\ cmds' = <<>>
  /\ UNCHANGED <<med, cast, yt_active, ownVars, obsVars>>

ReportAppName == ReportApp({None}, {None, "App"})

\* TitlesMixin.titles
GetTitles ==
  /\ call' = [op |-> "titles", val |-> titles(med, app_display_name),
              raised |-> FALSE]
  /\ cmds' = <<>>
  /\ UNCHANGED <<devVars, ownVars, obsVars>>

NextTitles ==
  \/ ReportTitlesStatus
  \/ ReportAppName
  \/ GetTitles

SpecTitles == InitTitles /\ [][NextTitles]_vars

\* The fragments in their order of priority.
Fragments ==
  IF med = NoStatus
    THEN <<None, None, None, None, None, app_display_name>>
  ELSE <<med.title, med.series_title, med.subtitle, med.artist,
         med.album_name, app_display_name>>

Present(x) == x # None /\ x # ""

\* C10: titles is the first 3 present fragments of [media title, series
\* title, subtitle, artist, album, application name], padded with absent
\* entries at the end only; with no fragment present it is the fallback
\* product name alone; its first entry is never absent.
C10_FirstThreePresent ==
  call.op = "titles" =>
    LET present == SelectSeq(Fragments, Present)
        expected == IF present = <<>> THEN <<TITLE>> ELSE present IN
    /\ \A i \in 1..3 :
         call.val[i] = IF i <= Len(expected) THEN expected[i] ELSE None
    /\ call.val[1] # None
    /\ \A i \in 1..2 : call.val[i] = None => call.val[i + 1] = None

C10_Witness ==
  /\ call.op = "titles"
  /\ med # NoStatus
  /\ med.title = "T" /\ med.series_title = "S" /\ med.subtitle = None
  /\ med.artist = "Ar" /\ med.album_name = "Al"
  /\ app_display_name = "App"
  /\ call.val = <<"T", "S", "Ar">>

\* ================================================================== icons
ImageLists == UNION {[1..n -> {None, "u1"}] : n \in 0..MaxImages}

IconStatuses ==
  {NoStatus} \cup
  {[DefaultMed EXCEPT !.images = i, !.title = t] :
     i \in ImageLists, t \in {None, "Song1", "Song2"}}

IconCasts == {NoStatus} \cup {[DefaultCast EXCEPT !.icon_url = u] : u \in {None, "u2"}}

InitIcon ==
  /\ med \in IconStatuses
  /\ cast \in IconCasts
  /\ app_id \in {"A", "B"}
  /\ app_display_name = None
  /\ yt_active = FALSE
  /\ hist = Report(NoHist, med)
  /\ InitOwn

ReportIconStatus == ReportMedia(IconStatuses)

\* The device reports a cast status: the application and its icon.
ReportCast(casts, ids) ==
  /\ cast' \in casts
  /\ app_id' \in ids
  /\ call' = NoCall
  /\ cmds' = <<>>
  /\ UNCHANGED <<med, app_display_name, yt_active, ownVars, obsVars>>

ReportIconCast == ReportCast(IconCasts, {"A", "B"})

\* IconsMixin.get_art_url
GetArtUrl ==
  /\ LET r == get_art_url(med, cast, app_id, app_display_name, cached_icon,
                          light_icon) IN
       /\ call' = [op |-> "get_art_url", val |-> r.val, raised |-> r.raised,
                   before |-> cached_icon]
       /\ cached_icon' = r.cached
  /\ cmds' = <<>>
  /\ UNCHANGED <<devVars, _longest_duration, light_icon, obsVars>>

\* IconsMixin.set_icon
SetIcon ==
  /\ \E lighter \in BOOLEAN : light_icon' = lighter
  /\ call' = [op |-> "set_icon", raised |-> FALSE]
  /\ cmds' = <<>>
  /\ UNCHANGED <<devVars, _longest_duration, cached_icon, obsVars>>

NextIcon ==
  \/ ReportIconStatus
  \/ ReportIconCast
  \/ GetArtUrl
  \/ SetIcon

SpecIcon == InitIcon /\ [][NextIcon]_vars

\* The current primary title: the first entry of titles.
PrimaryTitle == titles(med, app_display_name)[1]

\* The cache a query found is still valid: it holds a url, and its
\* application id and title are the current ones.
CacheValid(icon) ==
  IF icon = NoIcon THEN FALSE
  ELSE icon.url # None /\ icon.app_id = app_id /\ icon.title = PrimaryTitle

NoLiveIcon ==
  /\ med # NoStatus
  /\ med.images = <<>>
  /\ (cast = NoStatus \/ cast.icon_url = None)

C9_FirstAvailableSource ==
  (call.op = "get_art_url" /\ med # NoStatus) =>
    LET image == IF med.images = <<>> THEN None ELSE med.images[1]
        icon == IF cast = NoStatus THEN None ELSE cast.icon_url IN
    /\ ~call.raised
    /\ call.val =
         IF image # None THEN image
         ELSE IF icon # None THEN icon
         ELSE IF CacheValid(call.before) THEN call.before.url
         ELSE IF light_icon THEN LIGHT_THUMB ELSE DEFAULT_THUMB

\* What the code keeps of C9: the same order when the media status has no
\* image, or a first image with a url.
C9_FirstAvailableSourceWithUrl ==
  (call.op = "get_art_url" /\ med # NoStatus
     /\ (med.images = <<>> \/ med.images[1] # None)) =>
    LET image == IF med.images = <<>> THEN None ELSE med.images[1]
        icon == IF cast = NoStatus THEN None ELSE cast.icon_url IN
    /\ ~call.raised
    /\ call.val =
         IF image # None THEN image
         ELSE IF icon # None THEN icon
         ELSE IF CacheValid(call.before) THEN call.before.url
         ELSE IF light_icon THEN LIGHT_THUMB ELSE DEFAULT_THUMB

\* ======================================================= read projections
RichMed ==
  [DefaultMed EXCEPT !.current_time = Just(3), !.adjusted_current_time = Just(4),
                     !.title = "T", !.artist = "Ar", !.images = <<"u1">>,
                     !.content_id = "abc123", !.track = Just(1),
                     !.playback_rate = 2, !.player_state = "PLAYING",
                     !.supports_pause = TRUE, !.supports_seek = TRUE,
                     !.supports_queue_next = TRUE]

RichCast ==
  [DefaultCast EXCEPT !.icon_url = "u2", !.volume_level = 5,
                      !.volume_muted = TRUE]

ReadStatuses == {NoStatus, DefaultMed, RichMed}
ReadCasts == {NoStatus, DefaultCast, RichCast}

InitRead ==
  /\ med \in ReadStatuses
  /\ cast \in ReadCasts
  /\ app_id \in {None, "A"}
  /\ app_display_name = None
  /\ yt_active = FALSE
  /\ hist = Report(NoHist, med)
  /\ InitOwn

ReportReadStatus == ReportMedia(ReadStatuses)
ReportReadCast == ReportCast(ReadCasts, {None, "A"})

\* MetadataMixin.metadata
GetMetadata ==
  /\ LET r == metadata(med, cast, app_id, app_display_name, cached_icon,
                       light_icon, _longest_duration, yt_active) IN
       /\ call' = [op |-> "metadata", val |-> r.val, raised |-> r.raised,
                   before |-> cached_icon]
       /\ cached_icon' = r.cached
       /\ _longest_duration' = r.longest
  /\ pending' = IF StatusDuration(med) = Nothing THEN Nothing ELSE pending
  /\ cmds' = <<>>
  /\ UNCHANGED <<devVars, light_icon, hist>>

\* TimeMixin.get_rate
GetRate ==
  /\ call' = [op |-> "get_rate", val |-> get_rate(med), raised |-> FALSE]
  /\ cmds' = <<>>
  /\ UNCHANGED <<devVars, ownVars, obsVars>>

\* The flags of AbilitiesMixin
can_flag(flag, m) ==
  CASE flag = "can_quit" -> TRUE
    [] flag = "can_play" -> can_play(m)
    [] flag = "can_control" -> TRUE
    [] flag = "can_edit_track" -> FALSE
    [] flag = "can_play_next" -> can_play_next(m)
    [] flag = "can_play_prev" -> can_play_prev(m)
    [] flag = "can_pause" -> can_pause(m)
    [] flag = "can_seek" -> can_seek(m)

CanFlags ==
  {"can_quit", "can_play", "can_control", "can_edit_track", "can_play_next",
   "can_play_prev", "can_pause", "can_seek"}

\* AbilitiesMixin.can_*
GetCanFlag ==
  /\ \E flag \in CanFlags :
       call' = [op |-> flag, val |-> can_flag(flag, med), raised |-> FALSE]
  /\ cmds' = <<>>
  /\ UNCHANGED <<devVars, ownVars, obsVars>>

NextRead ==
  \/ ReportReadStatus
  \/ ReportReadCast
  \/ GetTitles
  \/ GetMetadata
  \/ GetArtUrl
  \/ GetDuration
  \/ GetCurrentPosition
  \/ GetRate
  \/ GetVolume
  \/ IsMute
  \/ GetCanFlag

SpecRead == InitRead /\ [][NextRead]_vars

ReadProjections ==
  {"titles", "metadata", "get_art_url", "get_duration",
   "get_current_position", "get_rate", "get_volume", "is_mute"} \cup CanFlags

\* C4: no read projection raises while the device has reported no media
\* status or no cast status.
C4_ReadsNeverRaise ==
  (call.op \in ReadProjections /\ (med = NoStatus \/ cast = NoStatus))
    => ~call.raised

\* What the code keeps of C4: every read projection but get_art_url and
\* metadata returns a value in those states, and these two do so when the
\* media status is there.
C4_ReadsNeverRaiseButArt ==
  (call.op \in ReadProjections
     /\ (call.op \in {"get_art_url", "metadata"} => med # NoStatus))
    => ~call.raised

\* ========================================================= device locator
\* (src/cast_control/device/device.py)  A device is the record of its name
\* and its uuid; NoDevice is Python's None.  A discovery (get_devices) is
\* the list of devices the scan returns, and each scan may return another.
NoDevice == [absent |-> TRUE]
DEFAULT_NAME == "DEFAULT_NAME"

\* uuid.UUID(text): the parsed uuid, or None for a text UUID() rejects with
\* ValueError.  Case and braces make no difference to the parsed value.
ParseUUID(text) ==
  CASE text = "u1" -> "U:1"
    [] text = "{U2}" -> "U:2"
    [] text = "u9" -> "U:9"
    [] OTHER -> None

\* str.casefold on a device name
NameCasefold(name) ==
  CASE name = "TV" -> "tv"
    [] name = "DEN" -> "den"
    [] name = "Den" -> "den"
    [] OTHER -> name

\* Python truthiness of an Optional device
TruthyDev(device) == device # NoDevice

\* get_device_via_host: the device pychromecast builds for the host, named
\* by the given name or DEFAULT_NAME, or None when it builds none
get_device_via_host(host, name, answers) ==
  IF answers
    THEN [name |-> IF TruthyStr(name) THEN name ELSE DEFAULT_NAME,
          uuid |-> "U:0"]
  ELSE NoDevice

\* get_first
get_first(devices) == IF devices = <<>> THEN NoDevice ELSE devices[1]

\* for device in devices: if device.uuid == uuid: return device
RECURSIVE FirstByUuid(_, _)
FirstByUuid(devices, uuid) ==
  IF devices = <<>> THEN NoDevice
  ELSE IF Head(devices).uuid = uuid THEN Head(devices)
  ELSE FirstByUuid(Tail(devices), uuid)

\* for device in devices: if device.name.casefold() == name: return device
RECURSIVE FirstByName(_, _)
FirstByName(devices, name) ==
  IF devices = <<>> THEN NoDevice
  ELSE IF NameCasefold(Head(devices).name) = name THEN Head(devices)
  ELSE FirstByName(Tail(devices), name)

\* get_device_via_uuid: the device returned, or the error raised
get_device_via_uuid(uuid, devices) ==
  IF ~TruthyStr(uuid) THEN [raised |-> FALSE, val |-> get_first(devices)]
  ELSE IF ParseUUID(uuid) = None THEN [raised |-> TRUE, val |-> NoDevice]
  ELSE [raised |-> FALSE,
        val |-> FirstByUuid(devices, ParseUUID(uuid))]

\* get_device
get_device(name, devices) ==
  IF ~TruthyStr(name) THEN get_first(devices)
  ELSE FirstByName(devices, NameCasefold(name))

\* find_device's tests before each strategy
attempts_host(host) == TruthyStr(host)

attempts_uuid(uuid, device) == TruthyStr(uuid) /\ ~TruthyDev(device)

\* Faulty variant: the name is looked up whatever was found before
attempts_name_always(name, device) == TruthyStr(name)

attempts_name(name, device) == TruthyStr(name) /\ ~TruthyDev(device)

no_identifiers(host, name, uuid) ==
  ~(TruthyStr(host) \/ TruthyStr(name) \/ TruthyStr(uuid))

\* ------------------------------------------------- device locator: actions
Discoverable ==
  {[name |-> "TV", uuid |-> "U:1"], [name |-> "Den", uuid |-> "U:2"],
   [name |-> "tv", uuid |-> "U:3"]}

\* The lists a discovery may return: up to MaxDevices different devices
Discoveries ==
  {d \in UNION {[1..n -> Discoverable] : n \in 0..MaxDevices} :
     \A i, j \in 1..Len(d) : i # j => d[i] # d[j]}

FindNames == {None, "", "tv", "DEN", "attic"}
FindHosts == {None, "10.0.0.2"}
FindUuids == {None, "u1", "{U2}", "u9", "not-a-uuid"}

Finding(pc) == call.op = "find_device" /\ call.pc = pc

\* One strategy's entry in the log: what it was and what it returned
Tried(strategy, found) == [cmd |-> strategy, found |-> found]

\* find_device is called: device = None
FindDevice ==
  /\ call.op = "find_device" => call.pc = "done"
  /\ \E name \in FindNames, host \in FindHosts, uuid \in FindUuids :
       call' = [op |-> "find_device", pc |-> "host", name |-> name,
                host |-> host, uuid |-> uuid, device |-> NoDevice,
                raised |-> FALSE]
  /\ cmds' = <<>>
  /\ UNCHANGED <<devVars, ownVars, obsVars>>

\* if host: device = get_device_via_host(host, name, retry_wait)
FindViaHost ==
  /\ Finding("host")
  /\ IF attempts_host(call.host)
       THEN \E answers \in BOOLEAN :
              LET found == get_device_via_host(call.host, call.name, answers) IN
              /\ call' = [call EXCEPT !.pc = "uuid", !.device = found]
              /\ cmds' = Append(cmds, Tried("get_device_via_host", found))
       ELSE /\ call' = [call EXCEPT !.pc = "uuid"]
            /\ cmds' = cmds
  /\ UNCHANGED <<devVars, ownVars, obsVars>>

\* if uuid and not device: device = get_device_via_uuid(uuid, retry_wait)
FindViaUuid ==
  /\ Finding("uuid")
  /\ IF attempts_uuid(call.uuid, call.device)
       THEN \E devices \in Discoveries :
              LET r == get_device_via_uuid(call.uuid, devices) IN
              /\ call' = IF r.raised
                           THEN [call EXCEPT !.pc = "done", !.raised = TRUE]
                           ELSE [call EXCEPT !.pc = "name", !.device = r.val]
              /\ cmds' = Append(cmds, Tried("get_device_via_uuid", r.val))
       ELSE /\ call' = [call EXCEPT !.pc = "name"]
            /\ cmds' = cmds
  /\ UNCHANGED <<devVars, ownVars, obsVars>>

\* if name and not device: device = get_device(name, retry_wait)
FindViaName ==
  /\ Finding("name")
  /\ IF attempts_name(call.name, call.device)
       THEN \E devices \in Discoveries :
              LET found == get_device(call.name, devices) IN
              /\ call' = [call EXCEPT !.pc = "first", !.device = found]
              /\ cmds' = Append(cmds, Tried("get_device", found))
       ELSE /\ call' = [call EXCEPT !.pc = "first"]
            /\ cmds' = cmds
  /\ UNCHANGED <<devVars, ownVars, obsVars>>

\* if no_identifiers: device = get_device(retry_wait=retry_wait); return
FindFirst ==
  /\ Finding("first")
  /\ IF no_identifiers(call.host, call.name, call.uuid)
       THEN \E devices \in Discoveries :
              LET found == get_device(None, devices) IN
              /\ call' = [call EXCEPT !.pc = "done", !.device = found]
              /\ cmds' = Append(cmds, Tried("get_first", found))
       ELSE /\ call' = [call EXCEPT !.pc = "done"]
            /\ cmds' = cmds
  /\ UNCHANGED <<devVars, ownVars, obsVars>>

NextFind ==
  \/ FindDevice
  \/ FindViaHost
  \/ FindViaUuid
  \/ FindViaName
  \/ FindFirst

SpecFind == InitDefaults /\ [][NextFind]_vars

\* ------------------------------------------------- device locator: claims
\* The strategies in find_device's order
StrategyRank(strategy) ==
  CASE strategy = "get_device_via_host" -> 1
    [] strategy = "get_device_via_uuid" -> 2
    [] strategy = "get_device" -> 3
    [] strategy = "get_first" -> 4

\* The identifier a strategy needs was given
Given(strategy) ==
  CASE strategy = "get_device_via_host" -> Present(call.host)
    [] strategy = "get_device_via_uuid" -> Present(call.uuid)
    [] strategy = "get_device" -> Present(call.name)
    [] strategy = "get_first" ->
         ~Present(call.host) /\ ~Present(call.name) /\ ~Present(call.uuid)

\* The log of a find_device: host, then uuid, then name, each attempted
\* only if its identifier was given and nothing attempted before it returned
\* a device; the first-device fallback only with no identifier given.
OrderedAttempts ==
  /\ \A i \in 1..Len(cmds) : Given(cmds[i].cmd)
  /\ \A i, j \in 1..Len(cmds) :
       i < j => /\ StrategyRank(cmds[i].cmd) < StrategyRank(cmds[j].cmd)
                /\ cmds[i].found = NoDevice

\* The uuid strategy was attempted on a text that is no uuid
MalformedUuidTried ==
  /\ \E i \in 1..Len(cmds) : cmds[i].cmd = "get_device_via_uuid"
  /\ call.uuid \notin {"u1", "{U2}", "u9"}

\* The result of a finished find_device: no error, and the device of the
\* strategy that returned one, None when none did.
ResultOfAttempts ==
  /\ ~call.raised
  /\ call.device = IF cmds = <<>> THEN NoDevice ELSE cmds[Len(cmds)].found

\* C11: find_device resolves in the order host, uuid, name, a later strategy
\* attempted only if its identifier was given and no earlier one produced a
\* device, the first-device fallback only with no identifier given; and its
\* result is absent, not an error, when no attempted strategy yields a
\* device.
C11_FindOrder ==
  call.op = "find_device" =>
    /\ OrderedAttempts
    /\ call.pc = "done" => ResultOfAttempts

\* C11 as the code has it: the same, but a uuid that is not a well-formed
\* uuid raises ValueError once the uuid strategy is attempted, and the
\* search ends there.
C11_FindOrderWellFormed ==
  call.op = "find_device" =>
    /\ OrderedAttempts
    /\ (call.pc = "done" /\ ~MalformedUuidTried) => ResultOfAttempts
    /\ (call.pc = "done" /\ MalformedUuidTried) =>
         /\ call.raised
         /\ cmds[Len(cmds)].cmd = "get_device_via_uuid"

C11_Witness ==
  /\ Finding("done")
  /\ call.host = "10.0.0.2" /\ call.uuid = "u9" /\ call.name = "DEN"
  /\ Len(cmds) = 3
  /\ cmds[1] = Tried("get_device_via_host", NoDevice)
  /\ cmds[2] = Tried("get_device_via_uuid", NoDevice)
  /\ cmds[3].cmd = "get_device"
  /\ call.device = [name |-> "Den", uuid |-> "U:2"]
  /\ ~call.raised

====
